---- MODULE Spec2Model ----
(***************************************************************************)
(* The ReAct agent loop of src/src/react/agent.py: Agent.execute, think,   *)
(* decide, act, trace, Tool.use, and the threaded use of the one global    *)
(* agent by src/src/api.py.                                                *)
(*                                                                         *)
(* Texts are modelled by how they are built: a model response is a         *)
(* sequence of tokens (whitespace, back-ticks, the literal tag json,       *)
(* prose, one JSON object), an f-string is a record naming its template    *)
(* and its arguments.  IterationStep objects live in a heap (steps) and    *)
(* trace_iterations holds references to them, as the Python list does.     *)
(***************************************************************************)
EXTENDS Integers, Sequences, FiniteSets, TLC

(***************************************************************************)
(* Bounds of the model and program constants                               *)
(***************************************************************************)
\* self.max_iterations = 5
max_iterations == 5

\* number of execute() calls one thread of a run makes, one after another
MaxCalls == 2

\* number of distinct non-answer responses the model client gives within
\* one execute() call
MaxKinds == 1

\* model calls made in all in a run of the two-thread specification
ConcAsks == 2

Threads == {1, 2}

Queries == {"q1", "q2"}

(***************************************************************************)
(* Name (enum) and its two conversions                                     *)
(***************************************************************************)
Name == {"WIKIPEDIA", "GOOGLE", "NONE"}

\* Name.__str__: self.name.lower()
NameStr(n) ==
    CASE n = "WIKIPEDIA" -> "wikipedia"
      [] n = "GOOGLE"    -> "google"
      [] n = "NONE"      -> "none"
      [] OTHER           -> n

\* str.upper() on the names the responses of this model carry
Upper(s) ==
    CASE s = "Wikipedia" -> "WIKIPEDIA"
      [] s = "wikipedia" -> "WIKIPEDIA"
      [] s = "google"    -> "GOOGLE"
      [] s = "none"      -> "NONE"
      [] s = "bing"      -> "BING"
      [] OTHER           -> s

(***************************************************************************)
(* Responses of the model client: token sequences                          *)
(***************************************************************************)
\* JSON input values of an action: key absent, null, or a string
InAbsent == "<absent>"
InNull   == "<null>"

Tok(k) == [tok |-> k, hasAction |-> FALSE, name |-> "", input |-> InAbsent,
           hasAnswer |-> FALSE, answer |-> ""]

ObjAction(n, i) == [tok |-> "obj", hasAction |-> TRUE, name |-> n, input |-> i,
                    hasAnswer |-> FALSE, answer |-> ""]

ObjAnswer(a) == [tok |-> "obj", hasAction |-> FALSE, name |-> "", input |-> InAbsent,
                 hasAnswer |-> TRUE, answer |-> a]

ObjBoth(n, a) == [tok |-> "obj", hasAction |-> TRUE, name |-> n, input |-> InAbsent,
                  hasAnswer |-> TRUE, answer |-> a]

ObjNeither == [tok |-> "obj", hasAction |-> FALSE, name |-> "", input |-> InAbsent,
               hasAnswer |-> FALSE, answer |-> ""]

WS   == Tok("ws")
BT   == Tok("bt")
TAG  == Tok("json")
TXT  == Tok("txt")

RAnswer       == << ObjAnswer("42") >>
RAnswerFenced == << WS, BT, WS, ObjAnswer("42"), WS, BT, WS >>
RToolW        == << BT, TAG, WS, ObjAction("Wikipedia", "paris"), WS, BT >>
RToolG        == << ObjAction("google", InAbsent) >>
RToolNull     == << ObjAction("wikipedia", InNull) >>
RToolEmpty    == << ObjAction("google", "") >>
RNone         == << ObjAction("none", InAbsent) >>
RNoneAnswer   == << ObjBoth("none", "42") >>
RBing         == << ObjAction("bing", "x") >>
RNeither      == << ObjNeither >>
RMalformed    == << TXT, ObjAnswer("42") >>
RFenceOnly    == << BT, TAG, BT >>

\* generate() returned None
GeminiNone == << Tok("None") >>
\* the literal "No response from Gemini"
NoResponse == << Tok("No response from Gemini") >>

Answers == {RAnswer, RAnswerFenced}

Retries == {RToolW, RToolG, RToolNull, RToolEmpty, RNone, RNoneAnswer, RBing,
            RNeither, RMalformed, RFenceOnly, GeminiNone}

\* what generate(self.model, [prompt]) may return
GeminiOutputs == Answers \cup Retries

\* what it returns in the two-thread specification
ConcOutputs == {RAnswer, RToolW, RMalformed}

(***************************************************************************)
(* Texts built by f-strings: the template and its arguments                *)
(***************************************************************************)
Text(f, a, b, r, h) == [fmt |-> f, arg |-> a, arg2 |-> b, resp |-> r, hist |-> h]

\* Optional[str] = None
NoText == Text("None", "", "", << >>, << >>)

QueryText(q) == Text("{query}", q, "", << >>, << >>)

\* f"Thought: {response}"
ThoughtText(response) == Text("Thought: {response}", "", "", response, << >>)

\* f"Action: Using {tool_name} tool"
ActionText(tool_name) ==
    Text("Action: Using {tool_name} tool", NameStr(tool_name), "", << >>, << >>)

\* parsed_response['answer'], the answer text by itself
AnswerText(answer) == Text("{answer}", answer, "", << >>, << >>)

\* decide() storing the answer text by itself
FinalAnswerBare(answer) == AnswerText(answer)

\* decide() leaving final_answer unset on an answer
FinalAnswerUnset(answer) == NoText

\* f"Final Answer: {parsed_response['answer']}"
FinalAnswerText(answer) == Text("Final Answer: {answer}", answer, "", << >>, << >>)

\* f"I encountered an error in processing. Let me try again. Error: {str(e)}"
ParseErrorText(e) ==
    Text("I encountered an error in processing. Let me try again. Error: {e}",
         e, "", << >>, << >>)

\* f"I encountered an unexpected error. Let me try a different approach. Error: {str(e)}"
UnexpectedErrorText(e) ==
    Text("I encountered an unexpected error. Let me try a different approach. Error: {e}",
         e, "", << >>, << >>)

\* f"Observation from {tool_name}: {result}"
ObservationText(tool_name, result) ==
    Text("Observation from {tool_name}: {result}", NameStr(tool_name), result,
         << >>, << >>)

\* f"Error: Tool {tool_name} not found"
ToolNotFoundText(tool_name) ==
    Text("Error: Tool {tool_name} not found", NameStr(tool_name), "", << >>, << >>)

\* think() leaving the error of the last record unset
BudgetErrorUnset(history) == NoText

\* think() writing the apology without the history
BudgetErrorNoHistory(history) ==
    Text("I'm sorry, but I couldn't find a satisfactory answer within the allowed number of iterations. Here's what I know so far: {history}",
         "", "", << >>, << >>)

\* "I'm sorry, but I couldn't find a satisfactory answer ... so far: " + self.get_history()
BudgetErrorText(history) ==
    Text("I'm sorry, but I couldn't find a satisfactory answer within the allowed number of iterations. Here's what I know so far: {history}",
         "", "", << >>, history)

\* Message(role, content); call is the execute() call that appended it (ghost)
Message(role, content, c) == [role |-> role, content |-> content, call |-> c]

\* the dict stored in IterationStep.action, None when isSet is FALSE
NoAction == [isSet |-> FALSE, name |-> "", input |-> InAbsent]

ActionOf(obj) == [isSet |-> TRUE, name |-> obj.name, input |-> obj.input]

\* IterationStep(iteration_number=n); call is the execute() call that made it (ghost)
IterationStep(n, c) ==
    [iteration_number |-> n, thought |-> NoText, action |-> NoAction,
     observation |-> NoText, final_answer |-> NoText, error |-> NoText,
     call |-> c]

(***************************************************************************)
(* Agent.get_history, Agent.trace, Agent.register                          *)
(***************************************************************************)
\* "\n".join(f"{message.role}: {message.content}" for message in self.messages)
get_history(msgs) ==
    [i \in 1..Len(msgs) |-> [role |-> msgs[i].role, content |-> msgs[i].content]]

\* trace() appending a message whatever its role
TraceMessagesAll(msgs, role, content, c) == Append(msgs, Message(role, content, c))

\* trace(): if role != "system": self.messages.append(Message(role, content))
TraceMessages(msgs, role, content, c) ==
    IF role # "system" THEN Append(msgs, Message(role, content, c)) ELSE msgs

\* trace(): if current_iteration_step is not None: self.trace_iterations.append(step)
TraceIterations(tr, step) ==
    IF step # 0 THEN Append(tr, step) ELSE tr

\* self.tools[name] = Tool(name, func): a dict keeps its keys in insertion order
RegisterTool(tl, name) ==
    IF \E i \in 1..Len(tl) : tl[i] = name THEN tl ELSE Append(tl, name)

\* act() without the check of the look-up
ToolAssumed(tl, tool_name) == TRUE

\* self.tools.get(tool_name) followed by `if tool:`
ToolRegistered(tl, tool_name) == \E i \in 1..Len(tl) : tl[i] = tool_name

\* ', '.join([str(tool.name) for tool in self.tools.values()])
ToolList(tl) == [i \in 1..Len(tl) |-> NameStr(tl[i])]

(***************************************************************************)
(* Tool.use                                                                *)
(***************************************************************************)
\* what the wrapped capability does with a query: returns a text or raises
Capability == { [raises |-> FALSE, result |-> "found", exc |-> [type |-> "", msg |-> ""]],
                [raises |-> TRUE, result |-> "",
                 exc |-> [type |-> "ConnectionError", msg |-> "timed out"]] }

\* str(e) of an exception built from one message
ExcStr(e) == e.msg

\* Tool.use without its try/except
UseUnguarded(outcome) ==
    IF outcome.raises
    THEN [raised |-> TRUE, value |-> ""]
    ELSE [raised |-> FALSE, value |-> outcome.result]

\* Tool.use: try: return self.func(query) / except Exception as e: return str(e)
Use(outcome) ==
    IF outcome.raises
    THEN [raised |-> FALSE, value |-> ExcStr(outcome.exc)]
    ELSE [raised |-> FALSE, value |-> outcome.result]

(***************************************************************************)
(* Agent.ask_gemini and the parsing of Agent.decide                        *)
(***************************************************************************)
\* return str(response) if response is not None else "No response from Gemini"
AskResult(g) == IF g = GeminiNone THEN NoResponse ELSE g

\* The value of a one-element set.  Binding a text through a set, x \in {e},
\* computes e once, where LET would compute it again at every use.
The(S) == CHOOSE x \in S : TRUE

\* str.strip() with k = "ws", str.strip('`') with k = "bt": what lies between the
\* first and the last token that is not k
Strip(s, k) ==
    The({ IF keep = {} THEN << >>
          ELSE SubSeq(s, CHOOSE i \in keep : \A j \in keep : i <= j,
                         CHOOSE i \in keep : \A j \in keep : i >= j)
          : keep \in { {i \in 1..Len(s) : s[i].tok # k} } })

\* cleaned_response = response.strip().strip('`').strip()
\* if cleaned_response.startswith('json'): cleaned_response = cleaned_response[4:].strip()
Clean(response) ==
    The({ IF Len(c) > 0 /\ c[1].tok = "json" THEN Strip(Tail(c), "ws") ELSE c
          : c \in { Strip(c2, "ws")
                    : c2 \in { Strip(c1, "bt") : c1 \in { Strip(response, "ws") } } } })

\* json.loads: one JSON object, white space around it allowed; else JSONDecodeError
Loads(cleaned) ==
    The({ IF Len(c) = 1 /\ c[1].tok = "obj"
          THEN [ok |-> TRUE, obj |-> c[1]]
          ELSE [ok |-> FALSE, obj |-> ObjNeither]
          : c \in { Strip(cleaned, "ws") } })

\* action.get("input", self.query) with the default for every unusable input
ActInputLenient(obj, q) ==
    IF obj.input \in {InAbsent, InNull, ""} THEN q ELSE obj.input

\* action.get("input", self.query): the default is used only when the key is absent
ActInput(obj, q) == IF obj.input = InAbsent THEN q ELSE obj.input

\* decide() taking every action name for the name of a tool
NameLookupAny(n) == TRUE

\* Name[action["name"].upper()]: a KeyError unless n is a member of the enum
NameLookup(n) == n \in Name

\* decide() without its test for Name.NONE
IsNoneNever(tool_name) == FALSE

\* if tool_name == Name.NONE
IsNone(tool_name) == tool_name = "NONE"

\* The branch decide() takes on a response:
\*   "json_error"  json.loads raised JSONDecodeError
\*   "exception"   another exception inside the try (KeyError of Name[...],
\*                 ValueError("Invalid response format")); exc is str(e)
\*   "none"        an action that resolves to Name.NONE
\*   "tool"        an action that resolves to another Name
\*   "answer"      no action key, an answer key
Branch(response) ==
    LET p == The({ Loads(c) : c \in { Clean(response) } })
        o == p.obj
    IN  IF ~p.ok THEN [branch |-> "json_error", exc |-> "JSONDecodeError", obj |-> o]
        ELSE IF o.hasAction
        THEN IF ~NameLookup(Upper(o.name))
             THEN [branch |-> "exception", exc |-> "KeyError", obj |-> o]
             ELSE IF IsNone(Upper(o.name))
             THEN [branch |-> "none", exc |-> "", obj |-> o]
             ELSE [branch |-> "tool", exc |-> "", obj |-> o]
        ELSE IF o.hasAnswer
        THEN [branch |-> "answer", exc |-> "", obj |-> o]
        ELSE [branch |-> "exception", exc |-> "Invalid response format", obj |-> o]

(***************************************************************************)
(* State                                                                   *)
(***************************************************************************)
VARIABLES
    tools,              \* Agent.tools: the registered names, in insertion order
    query,              \* Agent.query
    messages,           \* Agent.messages
    current_iteration,  \* Agent.current_iteration
    trace_iterations,   \* Agent.trace_iterations: references into steps
    steps,              \* the IterationStep objects created so far
    pc,                 \* per thread: where its execute() call stands
    cur,                \* per thread: current_iteration_step (0: none)
    response,           \* per thread: the response think() hands to decide()
    actArgs,            \* per thread: the arguments decide() hands to act()
    prompt,             \* per thread: the prompt of its last model call
    ret,                \* per thread: the records of the list execute() returned,
                        \*   as they were when it returned
    call,               \* per thread: the number of its execute() call (ghost)
    ncalls,             \* execute() calls started so far (ghost)
    made,               \* per thread: execute() calls it started so far (ghost)
    thinks,             \* per thread: think() invocations of its call (ghost)
    asks,               \* per thread: model calls of its call (ghost)
    toolCalls,          \* per thread: Tool.use calls of its call (ghost)
    lastUse,            \* per thread: the last Tool.use call and its result (ghost)
    replies,            \* per thread: what generate() returned in its call, in order (ghost)
    scope               \* the bounds of the run: threads, calls per thread, kinds of
                        \*   responses per call, model calls, model outputs, registrations
                        \*   made before the first execute(), queries

vars == << tools, query, messages, current_iteration, trace_iterations, steps,
           pc, cur, response, actArgs, prompt, ret, call, ncalls, made, thinks,
           asks, toolCalls, lastUse, replies, scope >>

agentVars == << tools, query, messages, current_iteration, trace_iterations, steps >>

Range(f) == {f[i] : i \in DOMAIN f}

\* model calls of the calls in progress
SumAsks == asks[1] + asks[2]

NoArgs == [tool_name |-> "NONE", query |-> ""]

NoPrompt == [query |-> "", history |-> << >>, tools |-> << >>, made |-> FALSE]

NoUse == [made |-> FALSE, tool_name |-> "NONE", query |-> "",
          outcome |-> CHOOSE o \in Capability : ~o.raises,
          raised |-> FALSE, value |-> ""]

\* the records a list of references stands for
Deref(tr, heap) == [i \in 1..Len(tr) |-> heap[tr[i]]]

\* threads inside an execute() call
InFlight(t) == pc[t] \notin {"idle", "done"}

\* Agent.__init__
InitAgent ==
    /\ tools = << >>
    /\ query = ""
    /\ messages = << >>
    /\ current_iteration = 0
    /\ trace_iterations = << >>
    /\ steps = << >>

InitThreads ==
    /\ pc = [t \in Threads |-> "idle"]
    /\ cur = [t \in Threads |-> 0]
    /\ response = [t \in Threads |-> << >>]
    /\ actArgs = [t \in Threads |-> NoArgs]
    /\ prompt = [t \in Threads |-> NoPrompt]
    /\ ret = [t \in Threads |-> << >>]
    /\ call = [t \in Threads |-> 0]
    /\ ncalls = 0
    /\ made = [t \in Threads |-> 0]
    /\ thinks = [t \in Threads |-> 0]
    /\ asks = [t \in Threads |-> 0]
    /\ toolCalls = [t \in Threads |-> 0]
    /\ lastUse = [t \in Threads |-> NoUse]
    /\ replies = [t \in Threads |-> << >>]

\* one caller, its execute() calls one after another
Init ==
    /\ InitAgent
    /\ InitThreads
    /\ scope = [threads |-> {1}, calls |-> MaxCalls, kinds |-> MaxKinds,
                asks |-> max_iterations + 1, outputs |-> GeminiOutputs,
                setup |-> 0, queries |-> Queries]

\* two request threads of the HTTP server (app.run(threaded=True)) on the one
\* global agent, which the import of react.agent has set up with both tools
InitConc ==
    /\ InitAgent
    /\ InitThreads
    /\ scope = [threads |-> Threads, calls |-> 1, kinds |-> MaxKinds,
                asks |-> ConcAsks, outputs |-> ConcOutputs,
                setup |-> Cardinality(Name \ {"NONE"}), queries |-> Queries]

(***************************************************************************)
(* The pieces of execute() and think() the claims turn on                  *)
(***************************************************************************)
\* self.trace_iterations.clear()
ClearTrace(tr) == << >>

\* execute() without self.messages.clear()
KeepMessages(msgs) == msgs

\* self.messages.clear()
ClearMessages(msgs) == << >>

\* self.current_iteration = 0
ResetIteration(n) == 0

\* self.current_iteration += 1
NextIteration(n) == n + 1

\* the comparison one too late
ExceededLate(n) == n > max_iterations + 1

\* if self.current_iteration > self.max_iterations
Exceeded(n) == n > max_iterations

(***************************************************************************)
(* Actions                                                                 *)
(***************************************************************************)
\* agent.register(Name.WIKIPEDIA, wiki_search); agent.register(Name.GOOGLE, google_search)
\* the set-up of the module, in its order, before any execute()
Register(name) ==
    /\ ncalls = 0
    /\ Len(tools) = (IF name = "WIKIPEDIA" THEN 0 ELSE 1)
    /\ tools' = RegisterTool(tools, name)
    /\ UNCHANGED << query, messages, current_iteration, trace_iterations, steps,
                    pc, cur, response, actArgs, prompt, ret, call, ncalls, made,
                    thinks, asks, toolCalls, lastUse, replies, scope >>

\* execute(), up to its call of think(): the reset and the user message
ExecuteStart(t, q) ==
    /\ pc[t] \in {"idle", "done"}
    /\ made[t] < scope.calls
    /\ Len(tools) >= scope.setup
    /\ query' = q
    /\ trace_iterations' = ClearTrace(trace_iterations)
    /\ messages' = TraceMessages(ClearMessages(messages), "user", QueryText(q), ncalls + 1)
    /\ current_iteration' = ResetIteration(current_iteration)
    /\ steps' = IF \A u \in Threads \ {t} : ~InFlight(u) THEN << >> ELSE steps
    /\ pc' = [pc EXCEPT ![t] = "think"]
    /\ cur' = [cur EXCEPT ![t] = 0]
    /\ response' = [response EXCEPT ![t] = << >>]
    /\ actArgs' = [actArgs EXCEPT ![t] = NoArgs]
    /\ prompt' = [prompt EXCEPT ![t] = NoPrompt]
    /\ ret' = [ret EXCEPT ![t] = << >>]
    /\ call' = [call EXCEPT ![t] = ncalls + 1]
    /\ ncalls' = ncalls + 1
    /\ made' = [made EXCEPT ![t] = @ + 1]
    /\ thinks' = [thinks EXCEPT ![t] = 0]
    /\ asks' = [asks EXCEPT ![t] = 0]
    /\ toolCalls' = [toolCalls EXCEPT ![t] = 0]
    /\ lastUse' = [lastUse EXCEPT ![t] = NoUse]
    /\ replies' = [replies EXCEPT ![t] = << >>]
    /\ UNCHANGED << tools, scope >>

\* think(), up to its model call; or the whole of it when the budget is spent
Think(t) ==
    LET n  == NextIteration(current_iteration)
        id == Len(steps) + 1
        st == IterationStep(n, call[t])
        error_message == BudgetErrorText(get_history(messages))
    IN  /\ pc[t] = "think"
        /\ current_iteration' = n
        /\ thinks' = [thinks EXCEPT ![t] = @ + 1]
        /\ cur' = [cur EXCEPT ![t] = id]
        /\ IF Exceeded(n)
           THEN /\ steps' = Append(steps, [st EXCEPT !.error = error_message])
                /\ messages' = TraceMessages(messages, "assistant", error_message, call[t])
                /\ trace_iterations' = TraceIterations(trace_iterations, id)
                /\ pc' = [pc EXCEPT ![t] = "ret"]
                /\ UNCHANGED prompt
           ELSE /\ steps' = Append(steps, st)
                /\ prompt' = [prompt EXCEPT ![t] =
                                [query |-> query, history |-> get_history(messages),
                                 tools |-> ToolList(tools), made |-> TRUE]]
                /\ pc' = [pc EXCEPT ![t] = "ask"]
                /\ UNCHANGED << messages, trace_iterations >>
        /\ UNCHANGED << tools, query, response, actArgs, ret, call, ncalls, made,
                        asks, toolCalls, lastUse, replies, scope >>

\* the model call of think() returns g: ask_gemini, the thought, its trace
AskGemini(t, g) ==
    LET r == AskResult(g)
        thought == ThoughtText(r)
    IN  /\ pc[t] = "ask"
        /\ SumAsks < scope.asks
        /\ g \in scope.outputs
        /\ Cardinality((Range(replies[t]) \cup {g}) \ Answers) <= scope.kinds
        /\ response' = [response EXCEPT ![t] = r]
        /\ steps' = [steps EXCEPT ![cur[t]].thought = thought]
        /\ messages' = TraceMessages(messages, "assistant", thought, call[t])
        /\ trace_iterations' = TraceIterations(trace_iterations, cur[t])
        /\ asks' = [asks EXCEPT ![t] = @ + 1]
        /\ replies' = [replies EXCEPT ![t] = Append(@, g)]
        /\ pc' = [pc EXCEPT ![t] = "decide"]
        /\ UNCHANGED << tools, query, current_iteration, cur, actArgs, prompt, ret,
                        call, ncalls, made, thinks, toolCalls, lastUse, scope >>

\* decide(), up to its call of think() or act(), or to its end
Decide(t) ==
    LET b == Branch(response[t])
        s == cur[t]
        tool_name == Upper(b.obj.name)
        err == IF b.branch = "json_error" THEN ParseErrorText(b.exc)
                                          ELSE UnexpectedErrorText(b.exc)
        final == FinalAnswerText(b.obj.answer)
    IN  /\ pc[t] = "decide"
        /\ IF b.branch \in {"json_error", "exception"}
           THEN /\ steps' = [steps EXCEPT ![s].error = err]
                /\ messages' = TraceMessages(messages, "assistant", err, call[t])
                /\ trace_iterations' = TraceIterations(trace_iterations, s)
                /\ pc' = [pc EXCEPT ![t] = "think"]
                /\ UNCHANGED actArgs
           ELSE IF b.branch = "none"
           THEN /\ steps' = [steps EXCEPT ![s].action = ActionOf(b.obj)]
                /\ pc' = [pc EXCEPT ![t] = "think"]
                /\ UNCHANGED << messages, trace_iterations, actArgs >>
           ELSE IF b.branch = "tool"
           THEN /\ steps' = [steps EXCEPT ![s].action = ActionOf(b.obj)]
                /\ messages' = TraceMessages(messages, "assistant",
                                             ActionText(tool_name), call[t])
                /\ trace_iterations' = TraceIterations(trace_iterations, s)
                /\ actArgs' = [actArgs EXCEPT ![t] =
                                 [tool_name |-> tool_name,
                                  query |-> ActInput(b.obj, query)]]
                /\ pc' = [pc EXCEPT ![t] = "act"]
           ELSE /\ b.branch = "answer"
                /\ steps' = [steps EXCEPT ![s].final_answer = final]
                /\ messages' = TraceMessages(messages, "assistant", final, call[t])
                /\ trace_iterations' = TraceIterations(trace_iterations, s)
                /\ pc' = [pc EXCEPT ![t] = "ret"]
                /\ UNCHANGED actArgs
        /\ UNCHANGED << tools, query, current_iteration, cur, response, prompt, ret,
                        call, ncalls, made, thinks, asks, toolCalls, lastUse, replies,
                        scope >>

\* act(), up to its call of think(); the wrapped capability behaves as outcome
Act(t, outcome) ==
    LET s == cur[t]
        tool_name == actArgs[t].tool_name
        r == Use(outcome)
        observation == ObservationText(tool_name, r.value)
        notFound == ToolNotFoundText(tool_name)
        \* an exception leaving act() is caught by the except Exception of decide()
        escaped == UnexpectedErrorText(ExcStr(outcome.exc))
    IN  /\ pc[t] = "act"
        /\ IF ToolRegistered(tools, tool_name)
           THEN /\ toolCalls' = [toolCalls EXCEPT ![t] = @ + 1]
                /\ lastUse' = [lastUse EXCEPT ![t] =
                                 [made |-> TRUE, tool_name |-> tool_name,
                                  query |-> actArgs[t].query, outcome |-> outcome,
                                  raised |-> r.raised, value |-> r.value]]
                /\ IF r.raised
                   THEN /\ steps' = [steps EXCEPT ![s].error = escaped]
                        /\ messages' = TraceMessages(messages, "assistant", escaped, call[t])
                        /\ trace_iterations' = TraceIterations(trace_iterations, s)
                   ELSE /\ steps' = [steps EXCEPT ![s].observation = observation]
                        /\ trace_iterations' = TraceIterations(trace_iterations, s)
                        /\ messages' = Append(TraceMessages(messages, "system",
                                                            observation, call[t]),
                                              Message("system", observation, call[t]))
           ELSE /\ outcome = NoUse.outcome
                /\ steps' = [steps EXCEPT ![s].error = notFound]
                /\ messages' = TraceMessages(messages, "system", notFound, call[t])
                /\ trace_iterations' = TraceIterations(trace_iterations, s)
                /\ UNCHANGED << toolCalls, lastUse >>
        /\ pc' = [pc EXCEPT ![t] = "think"]
        /\ UNCHANGED << tools, query, current_iteration, cur, response, actArgs,
                        prompt, ret, call, ncalls, made, thinks, asks, replies, scope >>

\* return self.trace_iterations
Return(t) ==
    /\ pc[t] = "ret"
    /\ ret' = [ret EXCEPT ![t] = Deref(trace_iterations, steps)]
    /\ pc' = [pc EXCEPT ![t] = "done"]
    /\ cur' = [cur EXCEPT ![t] = 0]
    /\ UNCHANGED << agentVars, response, actArgs, prompt, call, ncalls, made, thinks,
                    asks, toolCalls, lastUse, replies, scope >>

Next ==
    \/ \E name \in Name \ {"NONE"} : Register(name)
    \/ \E t \in scope.threads : \E q \in scope.queries : ExecuteStart(t, q)
    \/ \E t \in scope.threads : Think(t)
    \/ \E t \in scope.threads : \E g \in GeminiOutputs : AskGemini(t, g)
    \/ \E t \in scope.threads : Decide(t)
    \/ \E t \in scope.threads : \E outcome \in Capability : Act(t, outcome)
    \/ \E t \in scope.threads : Return(t)

Spec == Init /\ [][Next]_vars

SpecConc == InitConc /\ [][Next]_vars

\* the steps of a call in progress: the code runs on, and the model client
\* and the tools return
Step(t) ==
    \/ Think(t)
    \/ \E g \in GeminiOutputs : AskGemini(t, g)
    \/ Decide(t)
    \/ \E outcome \in Capability : Act(t, outcome)
    \/ Return(t)

\* one execute() call of one caller
InitOne ==
    /\ InitAgent
    /\ InitThreads
    /\ scope = [threads |-> {1}, calls |-> 1, kinds |-> MaxKinds,
                asks |-> max_iterations + 1, outputs |-> GeminiOutputs,
                setup |-> 0, queries |-> {"q1"}]

\* a call in progress is not suspended for ever: the interpreter runs its next
\* statement, and the blocking calls to the model client and to a tool return
SpecFair == InitOne /\ [][Next]_vars /\ \A t \in Threads : WF_vars(Step(t))

(***************************************************************************)
(* Properties                                                              *)
(***************************************************************************)
IsSet(x) == x # NoText

Done(t) == pc[t] = "done"

Last(s) == s[Len(s)]

\* the JSON object of a model output, as decide() parses it
Payload(g) == Loads(Clean(AskResult(g)))

IsAnswerPayload(g) ==
    Payload(g).ok /\ Payload(g).obj.hasAnswer /\ ~Payload(g).obj.hasAction

IsMalformed(g) == ~Payload(g).ok

\* an action whose name is a Name other than NONE
IsToolPayload(g) ==
    Payload(g).ok /\ Payload(g).obj.hasAction
        /\ Upper(Payload(g).obj.name) \in Name \ {"NONE"}

InRegistry(n) == \E i \in 1..Len(tools) : tools[i] = n

BudgetFmt == BudgetErrorText(<< >>).fmt

\* C1: every execute() call that has started returns, and no call makes more
\* than max_iterations + 1 think() invocations.
C1_Terminates ==
    /\ \A t \in Threads : (InFlight(t) ~> Done(t))
    /\ [](\A t \in Threads : thinks[t] <= max_iterations + 1)

C1_Witness == Done(1) /\ thinks[1] = max_iterations + 1

\* C2: when the first response is an answer payload, the returned sequence has
\* exactly one element, with final_answer set and error unset.
C2_OneRecord ==
    \A t \in Threads :
        (Done(t) /\ Len(replies[t]) >= 1 /\ IsAnswerPayload(replies[t][1]))
            => /\ Len(ret[t]) = 1
               /\ IsSet(ret[t][1].final_answer)
               /\ ~IsSet(ret[t][1].error)

AllMalformed(t) ==
    /\ Len(replies[t]) >= 1
    /\ \A i \in 1..Len(replies[t]) : IsMalformed(replies[t][i])

\* C3 as stated: when every response is malformed, the returned sequence has
\* exactly max_iterations elements, the last one with the budget error, none
\* with final_answer.
C3_Original ==
    \A t \in Threads :
        (Done(t) /\ AllMalformed(t))
            => /\ Len(ret[t]) = max_iterations
               /\ Last(ret[t]).error.fmt = BudgetFmt
               /\ \A i \in 1..Len(ret[t]) : ~IsSet(ret[t][i].final_answer)

\* C3 amended: when every response is malformed, the returned sequence holds
\* exactly max_iterations + 1 distinct records, those of iterations
\* 1 .. max_iterations + 1; its last element carries the budget error and no
\* element has final_answer set.
C3_Amended ==
    \A t \in Threads :
        (Done(t) /\ AllMalformed(t))
            => /\ Cardinality(Range(ret[t])) = max_iterations + 1
               /\ {ret[t][i].iteration_number : i \in 1..Len(ret[t])}
                      = 1..(max_iterations + 1)
               /\ Last(ret[t]).error.fmt = BudgetFmt
               /\ \A i \in 1..Len(ret[t]) : ~IsSet(ret[t][i].final_answer)

C3_Witness == Done(1) /\ AllMalformed(1) /\ Len(replies[1]) = max_iterations

\* C4: a registered tool requested first and an answer second give a returned
\* sequence of length 2: action and observation on the first element, neither
\* final_answer nor error; final_answer on the second.
C4_TwoRecords ==
    \A t \in Threads :
        (/\ Done(t)
         /\ Len(replies[t]) = 2
         /\ IsToolPayload(replies[t][1])
         /\ InRegistry(Upper(Payload(replies[t][1]).obj.name))
         /\ IsAnswerPayload(replies[t][2]))
            => /\ Len(ret[t]) = 2
               /\ ret[t][1].action.isSet
               /\ IsSet(ret[t][1].observation)
               /\ ~IsSet(ret[t][1].final_answer)
               /\ ~IsSet(ret[t][1].error)
               /\ IsSet(ret[t][2].final_answer)

\* C5: act() on a Name that has no entry in the registry puts the tool-not-found
\* error on the record of the iteration, invokes no tool and enters think();
\* in the returned sequence a record of a later iteration follows it.
C5_NotFoundContinues ==
    /\ [][\A t \in Threads :
            (pc[t] = "act" /\ pc'[t] # "act" /\ ~InRegistry(actArgs[t].tool_name))
                => /\ actArgs[t].tool_name \in {"WIKIPEDIA", "GOOGLE"}
                   /\ steps'[cur[t]].error = ToolNotFoundText(actArgs[t].tool_name)
                   /\ toolCalls' = toolCalls
                   /\ lastUse' = lastUse
                   /\ pc'[t] = "think"]_vars
    /\ [](\A t \in Threads : Done(t) =>
            \A i \in 1..Len(ret[t]) :
                ret[t][i].error.fmt = ToolNotFoundText("GOOGLE").fmt
                    => \E j \in (i + 1)..Len(ret[t]) :
                          ret[t][j].iteration_number > ret[t][i].iteration_number)

C5_Witness ==
    /\ Done(1)
    /\ toolCalls[1] = 0
    /\ \E i \in 1..Len(ret[1]) : ret[1][i].error = ToolNotFoundText("GOOGLE")

\* C6: Tool.use never raises: it hands back the result of the capability, or
\* the text of the error the capability raised.
C6_UseNeverRaises ==
    \A t \in Threads :
        lastUse[t].made
            => /\ ~lastUse[t].raised
               /\ lastUse[t].value =
                    (IF lastUse[t].outcome.raises
                     THEN lastUse[t].outcome.exc.msg
                     ELSE lastUse[t].outcome.result)

C6_Witness ==
    /\ lastUse[1].made
    /\ lastUse[1].outcome.raises
    /\ pc[1] = "think"
    /\ steps[cur[1]].observation = ObservationText(lastUse[1].tool_name, "timed out")

\* C7: an execute(q) that follows earlier calls starts from a reset session: at
\* its first model call the message log is the user message for q alone, the
\* record log is empty and current_iteration is 1; the logs and the returned
\* sequence never hold a message or record of an earlier call.
C7_ResetSession ==
    \A t \in Threads :
        /\ (pc[t] = "ask" /\ asks[t] = 0)
              => /\ get_history(messages) =
                       << [role |-> "user", content |-> QueryText(query)] >>
                 /\ prompt[t].history = get_history(messages)
                 /\ trace_iterations = << >>
                 /\ current_iteration = 1
        /\ (InFlight(t) \/ Done(t))
              => /\ \A i \in 1..Len(messages) : messages[i].call = call[t]
                 /\ \A i \in 1..Len(trace_iterations) :
                        steps[trace_iterations[i]].call = call[t]
                 /\ \A i \in 1..Len(ret[t]) : ret[t][i].call = call[t]

C7_Witness ==
    /\ call[1] = 2
    /\ pc[1] = "ask"
    /\ asks[1] = 0
    /\ Len(messages) = 1

\* C8 as stated: current_iteration never decreases within one execute() call,
\* and it is at most max_iterations in every reachable state.
C8_Original ==
    /\ [][ncalls' = ncalls => current_iteration' >= current_iteration]_vars
    /\ [](current_iteration <= max_iterations)

\* C8 amended: current_iteration never decreases within one execute() call,
\* and it is at most max_iterations + 1 in every reachable state.
C8_Amended ==
    /\ [][ncalls' = ncalls => current_iteration' >= current_iteration]_vars
    /\ [](current_iteration <= max_iterations + 1)

C8_Witness == current_iteration = max_iterations + 1 /\ pc[1] = "ret"

\* C9: the last record of a returned sequence has exactly one of final_answer
\* and error set, and no record of it has both.
C9_ExactlyOne ==
    \A t \in Threads :
        Done(t)
            => /\ Len(ret[t]) >= 1
               /\ IsSet(Last(ret[t]).final_answer) # IsSet(Last(ret[t]).error)
               /\ \A i \in 1..Len(ret[t]) :
                      ~(IsSet(ret[t][i].final_answer) /\ IsSet(ret[t][i].error))

C9_Witness ==
    /\ Done(1)
    /\ IsSet(Last(ret[1]).error)
    /\ ~IsSet(Last(ret[1]).final_answer)
    /\ \E i \in 1..Len(ret[1]) : IsSet(ret[1][i].error) /\ i < Len(ret[1])

\* C10: when a second execute() starts while a first one is under way, its
\* reset takes every message and record of the first call out of the logs the
\* two calls share, and the first call later returns what the shared record
\* log then holds.
C10_ResetCorrupts ==
    [][\A t, u \in Threads :
         (/\ t # u
          /\ InFlight(t)
          /\ pc[u] \in {"idle", "done"}
          /\ pc'[u] = "think")
            => /\ \A i \in 1..Len(messages') : messages'[i].call # call[t]
               /\ trace_iterations' = << >>
               /\ current_iteration' = 0
               /\ query' = messages'[1].content.arg]_vars

\* the first call has returned records made for the second call's query, and
\* has lost its own first record
C10_Witness ==
    /\ Done(1)
    /\ call[1] = 1
    /\ asks[1] >= 1
    /\ \E i \in 1..Len(ret[1]) : ret[1][i].call = 2
    /\ \A i \in 1..Len(ret[1]) : ret[1][i].iteration_number # 1 \/ ret[1][i].call = 2

\* C11: a think() that finds the counter above max_iterations calls neither the
\* model nor a tool, writes one record whose error is the apology followed by
\* the history rendered before the message of that record is appended, and
\* returns; after it the call makes no think(), model call or tool call; no
\* call makes more than max_iterations model calls.
C11_BudgetStops ==
    /\ [][\A t \in Threads :
            (pc[t] = "think" /\ pc'[t] # "think"
                 /\ current_iteration + 1 > max_iterations)
                => /\ pc'[t] = "ret"
                   /\ asks' = asks
                   /\ toolCalls' = toolCalls
                   /\ Len(steps') = Len(steps) + 1
                   /\ SubSeq(steps', 1, Len(steps)) = steps
                   /\ Last(steps').error =
                        Text(BudgetFmt, "", "", << >>, get_history(messages))
                   /\ trace_iterations' = Append(trace_iterations, Len(steps'))
                   /\ messages' = Append(messages,
                                         Message("assistant", Last(steps').error,
                                                 call[t]))]_vars
    /\ [][\A t \in Threads :
            (pc[t] \in {"ret", "done"} /\ call'[t] = call[t])
                => /\ thinks'[t] = thinks[t]
                   /\ asks'[t] = asks[t]
                   /\ toolCalls'[t] = toolCalls[t]
                   /\ pc'[t] \in {"ret", "done"}]_vars
    /\ [](\A t \in Threads : asks[t] <= max_iterations)

C11_Witness ==
    /\ pc[1] = "ret"
    /\ asks[1] = max_iterations
    /\ toolCalls[1] >= 1
    /\ Len(messages) > 2
    /\ Last(messages).content.hist =
          get_history(SubSeq(messages, 1, Len(messages) - 1))

\* a record of the call of t in progress, or just returned, has final_answer set
HasFinal(t) ==
    \E i \in 1..Len(steps) : steps[i].call = call[t] /\ IsSet(steps[i].final_answer)

\* C12: once a record has final_answer set, the call makes no further think(),
\* model call or tool call; at most one record of a returned sequence has
\* final_answer set, it is the last one, and a returned sequence whose last
\* record is not the budget error ends with it.
C12_AnswerEnds ==
    /\ [][\A t \in Threads :
            (HasFinal(t) /\ call'[t] = call[t])
                => /\ thinks'[t] = thinks[t]
                   /\ asks'[t] = asks[t]
                   /\ toolCalls'[t] = toolCalls[t]
                   /\ pc'[t] \in {"ret", "done"}]_vars
    /\ [](\A t \in Threads : Done(t) =>
            /\ Cardinality({r \in Range(ret[t]) : IsSet(r.final_answer)}) <= 1
            /\ \A i \in 1..Len(ret[t]) :
                   IsSet(ret[t][i].final_answer) => ret[t][i] = Last(ret[t])
            /\ Last(ret[t]).error.fmt # BudgetFmt
                   => IsSet(Last(ret[t]).final_answer))

C12_Witness ==
    /\ Done(1)
    /\ HasFinal(1)
    /\ IsSet(Last(ret[1]).final_answer)
    /\ Cardinality(Range(ret[1])) >= 2
    /\ asks[1] < max_iterations

\* a response on which decide() fails: no JSON object, an action whose name is
\* no member of Name, or an object with neither action nor answer
IsFailure(resp) ==
    \/ ~Loads(Clean(resp)).ok
    \/ Loads(Clean(resp)).obj.hasAction
          /\ Upper(Loads(Clean(resp)).obj.name) \notin Name
    \/ ~Loads(Clean(resp)).obj.hasAction /\ ~Loads(Clean(resp)).obj.hasAnswer

\* C13: on every failure inside decide() the error text is put on the record of
\* the iteration, one assistant message with that text is appended to the
\* message log, no tool is invoked and think() is entered again; that think()
\* increments current_iteration, the only counter.
C13_FailureRetries ==
    /\ [][\A t \in Threads :
            (pc[t] = "decide" /\ pc'[t] # "decide" /\ IsFailure(response[t]))
                => /\ steps'[cur[t]].error.fmt
                        \in {ParseErrorText("").fmt, UnexpectedErrorText("").fmt}
                   /\ steps' = [steps EXCEPT ![cur[t]].error = steps'[cur[t]].error]
                   /\ messages' = Append(messages,
                                         Message("assistant", steps'[cur[t]].error,
                                                 call[t]))
                   /\ toolCalls' = toolCalls
                   /\ lastUse' = lastUse
                   /\ current_iteration' = current_iteration
                   /\ pc'[t] = "think"]_vars
    /\ [][\A t \in Threads :
            (pc[t] = "think" /\ pc'[t] # "think")
                => /\ current_iteration' = current_iteration + 1
                   /\ thinks'[t] = thinks[t] + 1]_vars

C13_Witness ==
    /\ pc[1] = "ask"
    /\ asks[1] = 1
    /\ current_iteration = 2
    /\ toolCalls[1] = 0
    /\ IsFailure(response[1])
    /\ Loads(Clean(response[1])).ok
    /\ Loads(Clean(response[1])).obj.hasAction
    /\ Last(messages).role = "assistant"
    /\ Last(messages).content = UnexpectedErrorText("KeyError")
    /\ steps[1].error = UnexpectedErrorText("KeyError")

\* a response whose action names NONE, in any case of the letters
IsNonePayload(resp) ==
    /\ Loads(Clean(resp)).ok
    /\ Loads(Clean(resp)).obj.hasAction
    /\ Upper(Loads(Clean(resp)).obj.name) = "NONE"

AllNone(t) ==
    /\ Len(replies[t]) >= 1
    /\ \A i \in 1..Len(replies[t]) : IsNonePayload(AskResult(replies[t][i]))

\* C14: on an action that resolves to NONE no tool is invoked, and observation,
\* error and final_answer of the record of the iteration stay unset; think() is
\* entered again and increments current_iteration.  A call whose every response
\* is such an action ends with the budget error after exactly max_iterations
\* model calls and no tool call.
C14_NoneLoops ==
    /\ [][\A t \in Threads :
            (pc[t] = "decide" /\ pc'[t] # "decide" /\ IsNonePayload(response[t]))
                => /\ toolCalls' = toolCalls
                   /\ lastUse' = lastUse
                   /\ Len(steps') = Len(steps)
                   /\ ~IsSet(steps'[cur[t]].observation)
                   /\ ~IsSet(steps'[cur[t]].error)
                   /\ ~IsSet(steps'[cur[t]].final_answer)
                   /\ pc'[t] = "think"]_vars
    /\ [][\A t \in Threads :
            (pc[t] = "think" /\ pc'[t] # "think" /\ asks[t] >= 1
                 /\ IsNonePayload(response[t]))
                => current_iteration' = current_iteration + 1]_vars
    /\ [](\A t \in Threads :
            (Done(t) /\ AllNone(t))
                => /\ asks[t] = max_iterations
                   /\ toolCalls[t] = 0
                   /\ Last(ret[t]).error.fmt = BudgetFmt
                   /\ \A i \in 1..Len(ret[t]) :
                          /\ ~IsSet(ret[t][i].observation)
                          /\ ~IsSet(ret[t][i].final_answer))

C14_Witness ==
    /\ Done(1)
    /\ AllNone(1)
    /\ Len(replies[1]) = max_iterations
    /\ ret[1][1].action.isSet

\* the number of messages with role "system" in a message log
SystemCount(msgs) == Cardinality({i \in 1..Len(msgs) : msgs[i].role = "system"})

\* C15: the invocation of a registered tool puts the formatted observation on
\* the record of the iteration and appends it to the message log exactly once,
\* as a "system" message after the thought message of that iteration; at the
\* next model call the history of the prompt is the message log, observation
\* included at its place.
C15_ObservationLogged ==
    /\ [][\A t \in Threads :
            (pc[t] = "act" /\ pc'[t] # "act" /\ InRegistry(actArgs[t].tool_name))
                => /\ toolCalls'[t] = toolCalls[t] + 1
                   /\ steps'[cur[t]].observation =
                        Text("Observation from {tool_name}: {result}",
                             NameStr(actArgs[t].tool_name), lastUse'[t].value,
                             << >>, << >>)
                   /\ messages' = Append(messages,
                                         Message("system", steps'[cur[t]].observation,
                                                 call[t]))
                   /\ \E j \in 1..Len(messages) :
                          /\ messages[j].role = "assistant"
                          /\ messages[j].content = steps[cur[t]].thought
                   /\ pc'[t] = "think"]_vars
    /\ [](\A t \in Threads :
            pc[t] = "ask"
                => /\ prompt[t].history = get_history(messages)
                   /\ SystemCount(messages) = toolCalls[t]
                   /\ (cur[t] > 1 /\ IsSet(steps[cur[t] - 1].observation))
                         => Last(prompt[t].history) =
                               [role |-> "system",
                                content |-> steps[cur[t] - 1].observation])

C15_Witness ==
    /\ pc[1] = "ask"
    /\ asks[1] = 1
    /\ toolCalls[1] = 1
    /\ Len(messages) = 4
    /\ messages[2].content = steps[1].thought
    /\ messages[4] = Message("system", ObservationText("WIKIPEDIA", "found"), call[1])
    /\ Last(prompt[1].history).content = steps[1].observation

\* C16: a returned sequence holds exactly one record per think() invocation of
\* the run: its length is the final current_iteration and its elements carry
\* the iteration numbers 1, 2, ..., n in this order, none of them twice.
C16_OnePerThink ==
    \A t \in Threads :
        Done(t)
            => /\ Len(ret[t]) = thinks[t]
               /\ Len(ret[t]) = current_iteration
               /\ \A i \in 1..Len(ret[t]) : ret[t][i].iteration_number = i

\* a response that is a JSON object with an answer key and no action key
IsAnswerResponse(resp) ==
    /\ Loads(Clean(resp)).ok
    /\ Loads(Clean(resp)).obj.hasAnswer
    /\ ~Loads(Clean(resp)).obj.hasAction

\* C17 as stated: on a payload with an answer key and no action key the
\* final_answer of the record equals the answer text of the payload, and one
\* assistant message carrying that answer is appended to the message log.
C17_Original ==
    [][\A t \in Threads :
         (pc[t] = "decide" /\ pc'[t] # "decide" /\ IsAnswerResponse(response[t]))
             => /\ steps'[cur[t]].final_answer =
                     AnswerText(Loads(Clean(response[t])).obj.answer)
                /\ Len(messages') = Len(messages) + 1
                /\ Last(messages').role = "assistant"
                /\ Last(messages').content.arg = Loads(Clean(response[t])).obj.answer
      ]_vars

\* C17 amended: on a payload with an answer key and no action key the
\* final_answer of the record is the text "Final Answer: " followed by the
\* answer text of the payload, and one assistant message with that same text
\* is appended to the message log.
C17_Amended ==
    [][\A t \in Threads :
         (pc[t] = "decide" /\ pc'[t] # "decide" /\ IsAnswerResponse(response[t]))
             => /\ steps'[cur[t]].final_answer =
                     Text("Final Answer: {answer}",
                          Loads(Clean(response[t])).obj.answer, "", << >>, << >>)
                /\ messages' = Append(messages,
                                      Message("assistant",
                                              steps'[cur[t]].final_answer, call[t]))
      ]_vars

C17_Witness ==
    /\ pc[1] = "ret"
    /\ IsAnswerResponse(response[1])
    /\ steps[cur[1]].final_answer.fmt = "Final Answer: {answer}"
    /\ steps[cur[1]].final_answer.arg = "42"
    /\ Last(messages).content = steps[cur[1]].final_answer

\* C18: for an action that resolves to a tool other than NONE, act() is called
\* with the input of the action when that input is usable, and with the query
\* of the execute() call when the input key is absent, null or empty.
C18_InputOrQuery ==
    \A t \in Threads :
        pc[t] = "act"
            => actArgs[t].query =
                 (IF Loads(Clean(response[t])).obj.input \in {InAbsent, InNull, ""}
                  THEN query
                  ELSE Loads(Clean(response[t])).obj.input)

\* C19: at every model call, each error text recorded on a record of an earlier
\* iteration of the call (parse failure, invalid format, unresolved tool name,
\* tool not found) is in the message log, and so in the history of the prompt.
C19_ErrorsLogged ==
    \A t \in Threads :
        pc[t] = "ask"
            => \A i \in 1..Len(steps) :
                   (steps[i].call = call[t] /\ IsSet(steps[i].error))
                       => /\ \E j \in 1..Len(messages) :
                                 messages[j].content = steps[i].error
                          /\ \E j \in 1..Len(prompt[t].history) :
                                 prompt[t].history[j].content = steps[i].error

\* return self.trace_iterations hands out the list object of the agent itself:
\* what a caller that holds the returned list reads in the current state
Result == Deref(trace_iterations, steps)

\* C20: the sequence an execute() call returned keeps the length and the
\* elements it had when it was returned, whatever the agent does next, a later
\* execute() call on the same agent included.
C20_ReturnedUnchanged ==
    [][\A t \in Threads : Done(t) => (Result = ret[t] /\ Result' = ret[t])]_vars

====
